---- MODULE Spec2Model ----
(***************************************************************************)
(* Model of core/tools.py (ToolManager), core/parallel.py                  *)
(* (ParallelExecutor.map), core/utils.py (run_command, sanitize_command)   *)
(* and the part of core/repository.py that ToolManager calls.              *)
(*                                                                         *)
(* One behaviour is one call of install_tool(s) / remove_tool(s) /         *)
(* update_tool(s).  The package manager is the environment: every command  *)
(* issued gets an exit code and a stderr text drawn from `world`.          *)
(* A stderr text is modelled by the set of marker substrings it contains,  *)
(* which is all the code ever asks of it (`"..." in stderr`).              *)
(***************************************************************************)
EXTENDS Integers, Sequences, FiniteSets

\* ---------------------------------------------------------------- bounds
MaxTools == 4

\* ------------------------------------------------------ program constants
BatchLimit == 3
MaxWorkers == 10
\* failure_rate <= 0.3 is kept exact as RateNum/RateDen
RateNum == 3
RateDen == 10

Min(a, b) == IF a < b THEN a ELSE b

\* ------------------------------------------------------------ stderr text
NetMarkers == {"Could not resolve", "Failed to fetch"}
PermMarkers == {"Permission denied", "requires root privileges"}
Unloc == "Unable to locate package"
NotInst == "is not installed"
Newest == "is already the newest version"
ZeroUp == "0 upgraded"

\* the texts the package manager prints in this model
TextGeneric == {}
TextUnloc == {Unloc}
TextPerm == {"Permission denied"}
TextNet == {"Failed to fetch"}
TextNetPerm == {"Failed to fetch", "Permission denied"}
TextPermUnloc == {"Permission denied", Unloc}
TextNotInst == {NotInst}
TextPermNotInst == {"Permission denied", NotInst}
TextNewest == {Newest, ZeroUp}
TextNewestOnly == {Newest}
TextPermNewest == {"Permission denied", Newest, ZeroUp}
TextDepPy == {"dependency", "python"}
TextBroken == {"broken"}
TextHeld == {"caused by held packages"}
\* str(e) of the SecurityError sanitize_command raises
TextSecurity == {"Command contains potentially dangerous pattern"}

\* "..." in stderr
Has(stderr, marker) == marker \in stderr
HasAny(stderr, markers) == (stderr \cap markers) # {}

\* ToolManager._is_skippable_error
IsSkippableError(stderr) ==
    \/ HasAny(stderr, {Unloc, "has no installation candidate",
                       "couldn't be found", "package not found"})
    \/ /\ Has(stderr, "python3 (>= 3.13~)")
       /\ HasAny(stderr, {"python3-charset-normalizer", "python3-psycopg2",
                          "python3-tk", "python3-zope.interface",
                          "python3-pydantic-core", "python3-uvloop"})
    \/ Has(stderr, "pkgProblemResolver::Resolve generated breaks")
    \/ Has(stderr, "python3 (>= 3.13~)") /\ Has(stderr, "python3:amd64=3.12")
    \/ Has(stderr, "caused by held packages")

\* ToolManager._get_error_reason: the human-readable reason of a stderr text
\* ("text" stands for the first meaningful line of the text itself)
GetErrorReason(stderr) ==
    IF Has(stderr, Unloc) THEN "Package not found in repositories"
    ELSE IF Has(stderr, "python3 (>= 3.13~)")
            /\ HasAny(stderr, {"python3-charset-normalizer", "python3-psycopg2"})
         THEN "Python 3.13+ required but system has 3.12 (version conflict)"
    ELSE IF Has(stderr, "dependency") /\ Has(stderr, "conflict")
         THEN "Dependency conflicts (version mismatch)"
    ELSE IF Has(stderr, "broken") THEN "Broken dependencies"
    ELSE IF Has(stderr, "Permission denied") THEN "Permission denied"
    ELSE IF HasAny(stderr, NetMarkers) THEN "Network error"
    ELSE IF Has(stderr, "No space left") THEN "Insufficient disk space"
    ELSE IF Has(stderr, "pkgProblemResolver::Resolve generated breaks")
         THEN "Complex dependency conflicts detected"
    ELSE IF stderr = {} THEN "Unknown error"
    ELSE "text"

\* BatchInstallVerdict that treats an unlocatable package as skippable, as
\* the per-package path does, and reports success
MutBatchSkipsUnloc(code, stderr) ==
    IF code = 0 THEN "True"
    ELSE IF HasAny(stderr, NetMarkers) THEN "NetworkError"
    ELSE IF HasAny(stderr, PermMarkers) THEN "PermissionError"
    ELSE IF Has(stderr, Unloc) THEN "True"
    ELSE "ToolInstallationError"

\* BatchInstallVerdict with the missing-package test ahead of the permission test
MutBatchUnlocFirst(code, stderr) ==
    IF code = 0 THEN "True"
    ELSE IF HasAny(stderr, NetMarkers) THEN "NetworkError"
    ELSE IF Has(stderr, Unloc) THEN "ToolInstallationError"
    ELSE IF HasAny(stderr, PermMarkers) THEN "PermissionError"
    ELSE "ToolInstallationError"

\* ToolManager._batch_install_tools: the verdict of the combined invocation
BatchInstallVerdict(code, stderr) ==
    IF code = 0 THEN "True"
    ELSE IF HasAny(stderr, NetMarkers) THEN "NetworkError"
    ELSE IF HasAny(stderr, PermMarkers) THEN "PermissionError"
    ELSE IF Has(stderr, Unloc) THEN "ToolInstallationError"
    ELSE "ToolInstallationError"

\* BatchRemoveVerdict without the not-installed test: a package that is not
\* installed fails the removal
MutBatchRemoveRaises(code, stderr) ==
    IF code = 0 THEN "True"
    ELSE IF HasAny(stderr, PermMarkers) THEN "PermissionError"
    ELSE "ToolInstallationError"

\* ToolManager._batch_remove_tools
BatchRemoveVerdict(code, stderr) ==
    IF code = 0 THEN "True"
    ELSE IF HasAny(stderr, PermMarkers) THEN "PermissionError"
    ELSE IF Has(stderr, Unloc) \/ Has(stderr, NotInst) THEN "False"
    ELSE "ToolInstallationError"

\* ToolManager._batch_update_tools
BatchUpdateVerdict(code, stderr) ==
    IF code = 0 THEN "True"
    ELSE IF HasAny(stderr, NetMarkers) THEN "NetworkError"
    ELSE IF HasAny(stderr, PermMarkers) THEN "PermissionError"
    ELSE IF Has(stderr, Unloc) THEN "ToolInstallationError"
    ELSE IF Has(stderr, Newest) /\ Has(stderr, ZeroUp) THEN "True"
    ELSE "ToolInstallationError"

\* ToolManager.remove_tool
RemoveToolVerdict(code, stderr) == BatchRemoveVerdict(code, stderr)

\* ToolManager.update_tool
UpdateToolVerdict(code, stderr) ==
    IF code = 0 THEN "True"
    ELSE IF HasAny(stderr, NetMarkers) THEN "NetworkError"
    ELSE IF HasAny(stderr, PermMarkers) THEN "PermissionError"
    ELSE IF Has(stderr, Unloc) THEN "ToolInstallationError"
    ELSE IF Has(stderr, Newest) THEN "True"
    ELSE "ToolInstallationError"

\* The branch a combined or single-tool invocation's non-zero exit takes, named
\* by the message it prints: "network", "permission", "missing" (package not
\* found in the repositories), "not_installed", "newest", "generic".
\* install_tool and _batch_install_tools
InstallFailureClass(stderr) ==
    IF HasAny(stderr, NetMarkers) THEN "network"
    ELSE IF HasAny(stderr, PermMarkers) THEN "permission"
    ELSE IF Has(stderr, Unloc) THEN "missing"
    ELSE "generic"

\* remove_tool and _batch_remove_tools
RemoveFailureClass(stderr) ==
    IF HasAny(stderr, PermMarkers) THEN "permission"
    ELSE IF Has(stderr, Unloc) \/ Has(stderr, NotInst) THEN "not_installed"
    ELSE "generic"

\* UpdateFailureClass without the network test, as the remove methods are
MutUpdateFailureClass(a, stderr) ==
    IF HasAny(stderr, PermMarkers) THEN "permission"
    ELSE IF Has(stderr, Unloc) THEN "missing"
    ELSE IF Has(stderr, Newest) /\ (a = "update_tool" \/ Has(stderr, ZeroUp))
         THEN "newest"
    ELSE "generic"

\* update_tool and _batch_update_tools (which also wants "0 upgraded")
UpdateFailureClass(a, stderr) ==
    IF HasAny(stderr, NetMarkers) THEN "network"
    ELSE IF HasAny(stderr, PermMarkers) THEN "permission"
    ELSE IF Has(stderr, Unloc) THEN "missing"
    ELSE IF Has(stderr, Newest) /\ (a = "update_tool" \/ Has(stderr, ZeroUp))
         THEN "newest"
    ELSE "generic"

FailureClass(a, stderr) ==
    CASE a \in {"install_tool", "install_tools"} -> InstallFailureClass(stderr)
      [] a \in {"remove_tool", "remove_tools"} -> RemoveFailureClass(stderr)
      [] a \in {"update_tool", "update_tools"} -> UpdateFailureClass(a, stderr)

\* what the method does in each branch: the exception raised or value returned
ClassVerdict(class) ==
    CASE class = "network" -> "NetworkError"
      [] class = "permission" -> "PermissionError"
      [] class = "missing" -> "ToolInstallationError"
      [] class = "generic" -> "ToolInstallationError"
      [] class = "not_installed" -> "False"
      [] class = "newest" -> "True"

\* ParallelInstallVerdict without the test for nothing installable
MutNoInstallableTest(successful, failed, skipped, total) ==
    LET installable == total - skipped IN
    IF successful = installable THEN "True"
    ELSE IF failed = 0 THEN "True"
    ELSE IF failed * RateDen <= RateNum * installable THEN "True"
    ELSE "ToolInstallationError"

\* ParallelInstallVerdict without the 30% tolerance: any failure raises
MutNoTolerance(successful, failed, skipped, total) ==
    LET installable == total - skipped IN
    IF installable = 0 THEN "False"
    ELSE IF successful = installable THEN "True"
    ELSE IF failed = 0 THEN "True"
    ELSE "ToolInstallationError"

\* ToolManager._parallel_install_tools, the decision after executor.map:
\* failure_rate <= 0.3 is failed/installable <= 3/10, exact in integers
ParallelInstallVerdict(successful, failed, skipped, total) ==
    LET installable == total - skipped IN
    IF installable = 0 THEN "False"
    ELSE IF successful = installable THEN "True"
    ELSE IF failed = 0 THEN "True"
    ELSE IF failed * RateDen <= RateNum * installable THEN "True"
    ELSE "ToolInstallationError"

\* ToolManager._parallel_remove_tools, the decision after executor.map
ParallelRemoveVerdict(allTrue, notInstalled, total) ==
    IF allTrue
    THEN IF notInstalled = total THEN "False" ELSE "True"
    ELSE "ToolInstallationError"

\* ToolManager._parallel_update_tools, the decision after executor.map
ParallelUpdateVerdict(allTrue) ==
    IF allTrue THEN "True" ELSE "ToolInstallationError"

\* ------------------------------------------------------------- commands
\* A command is its token sequence.  sanitize_command refuses a command that
\* contains one of the dangerous patterns; run_command re-raises that
\* SecurityError and runs nothing.  (The backquote pattern is left out: no
\* command of the model holds one.)
DangerousPatterns == {";", "&&", "||", "$(", "${", ">", ">>", "<", "|"}

SanitizeCommand(cmd) ==
    IF \E i \in 1..Len(cmd) : cmd[i] \in DangerousPatterns
    THEN "SecurityError" ELSE "ok"

\* the fallback strategies of _try_installation_fallbacks and
\* _resolve_python_dependency_conflicts, and the command each one runs
StrategyCommand(s) ==
    CASE s = "minimal"  -> <<"apt", "install", "-y", "--no-install-recommends", "pkg">>
      [] s = "pin"      -> <<"apt", "install", "-y", "pkg">>
      [] s = "aptget"   -> <<"apt-get", "install", "-y", "pkg">>
      [] s = "aptitude" -> <<"aptitude", "install", "-y", "pkg">>
      [] s = "fix"      -> <<"apt", "install", "-f", "-y", "&&", "apt", "install", "-y", "pkg">>
      [] s = "alt"      -> <<"apt", "install", "-y", "altname">>
      [] s = "snap"     -> <<"snap", "install", "pkg">>

\* run_command(cmd, capture_output=True) inside a try/except Exception: pass.
\* env.oks are the strategies whose command would exit 0 if it ran.
RunStrategy(s, env) ==
    IF SanitizeCommand(StrategyCommand(s)) # "ok" THEN "rejected"
    ELSE IF s \in env.oks THEN "ok" ELSE "fail"

\* ToolManager._resolve_python_dependency_conflicts: the strategies it would
\* reach, in order, if none succeeded
PythonStrategies(pinName, env) ==
    <<"minimal">>
    \o (IF pinName THEN <<"pin">> ELSE << >>)
    \o <<"aptget">>
    \o (IF env.aptitude THEN <<"aptitude">> ELSE << >>)

\* ToolManager._try_installation_fallbacks: the strategies it would reach, in
\* order, if none succeeded
FallbackPlan(stderr, pinName, env) ==
    (IF Has(stderr, "dependency") /\ Has(stderr, "python")
     THEN PythonStrategies(pinName, env) ELSE << >>)
    \o (IF Has(stderr, "dependency") \/ Has(stderr, "broken")
        THEN <<"fix">> ELSE << >>)
    \o <<"alt">>
    \o (IF env.snap THEN <<"snap">> ELSE << >>)

\* the prefix of the plan up to and including the first strategy that succeeds
RECURSIVE RunPlan(_, _)
RunPlan(plan, env) ==
    IF plan = << >> THEN << >>
    ELSE LET r == RunStrategy(Head(plan), env) IN
         IF r = "ok" THEN << [s |-> Head(plan), r |-> r] >>
         ELSE << [s |-> Head(plan), r |-> r] >> \o RunPlan(Tail(plan), env)

\* the attempts _try_installation_fallbacks makes: a sequence of [s, r]
TryInstallationFallbacks(stderr, pinName, env) ==
    RunPlan(FallbackPlan(stderr, pinName, env), env)

FallbackSucceeded(log) == log # << >> /\ log[Len(log)].r = "ok"

\* install_tool's check after a successful install: which <tool> 2>/dev/null
WhichCommand == <<"which", "pkg", "2", ">", "/dev/null">>

\* ToolManager.install_tool from the install command on.  A SecurityError of
\* the which-check is no KatoolinError the method lets through: the final
\* except Exception turns it into ToolInstallationError.
InstallToolVerdict(code, stderr) ==
    IF code = 0
    THEN IF SanitizeCommand(WhichCommand) = "ok" THEN "True"
         ELSE "ToolInstallationError"
    ELSE IF HasAny(stderr, NetMarkers) THEN "NetworkError"
    ELSE IF HasAny(stderr, PermMarkers) THEN "PermissionError"
    ELSE IF Has(stderr, Unloc) THEN "ToolInstallationError"
    ELSE "ToolInstallationError"

\* -------------------------------------------------------- the environment
Ok == [code |-> 0, stderr |-> {}]
Fail(text) == [code |-> 100, stderr |-> text]
\* run_command raising SecurityError instead of returning: the package name
\* holds one of sanitize_command's dangerous patterns
Raised == [code |-> -2, stderr |-> TextSecurity]

Texts == {TextGeneric, TextUnloc, TextPerm, TextNet, TextNetPerm, TextPermUnloc,
          TextNotInst, TextPermNotInst, TextNewest, TextNewestOnly, TextPermNewest, TextDepPy, TextBroken, TextHeld}

\* what one combined or single-tool invocation may answer
AllResponses == {Ok} \cup {Fail(x) : x \in Texts}

\* A world is what the system answers during one call: the answers a primary
\* command may get, the sets of fallback strategies that may be the ones to
\* exit 0, whether `which snap` / `which aptitude` find the program, and
\* whether the primary commands return in the order the pool took the packages.
OneShotWorld ==
    [answers |-> AllResponses, oks |-> {{}}, snap |-> FALSE, aptitude |-> FALSE,
       inorder |-> FALSE]
InstallWorlds ==
    { [answers |-> {Ok, Fail(TextUnloc), Fail(TextGeneric)},
       oks |-> {{}}, snap |-> FALSE, aptitude |-> FALSE,
       inorder |-> FALSE],
      [answers |-> {Ok, Fail(TextDepPy)},
       oks |-> {{}, {"aptget"}}, snap |-> TRUE, aptitude |-> TRUE,
       inorder |-> FALSE],
      [answers |-> {Fail(TextBroken), Fail(TextHeld)},
       oks |-> {{}, {"fix"}}, snap |-> TRUE, aptitude |-> FALSE,
       inorder |-> FALSE],
      [answers |-> {Fail(TextGeneric)},
       oks |-> {{}, {"alt"}}, snap |-> FALSE, aptitude |-> FALSE,
       inorder |-> FALSE],
      [answers |-> {Ok, Raised},
       oks |-> {{}}, snap |-> FALSE, aptitude |-> FALSE,
       inorder |-> FALSE] }
RemoveWorlds ==
    { [answers |-> {Ok, Fail(TextNotInst), Fail(TextGeneric)},
       oks |-> {{}}, snap |-> FALSE, aptitude |-> FALSE,
       inorder |-> FALSE],
      [answers |-> {Fail(TextNotInst)},
       oks |-> {{}}, snap |-> FALSE, aptitude |-> FALSE,
       inorder |-> FALSE],
      [answers |-> {Ok, Raised},
       oks |-> {{}}, snap |-> FALSE, aptitude |-> FALSE,
       inorder |-> FALSE] }
UpdateWorlds ==
    { [answers |-> {Ok, Fail(TextNewestOnly), Fail(TextGeneric)},
       oks |-> {{}}, snap |-> FALSE, aptitude |-> FALSE,
       inorder |-> FALSE],
      [answers |-> {Ok, Fail(TextNewestOnly), Fail(TextNewest)},
       oks |-> {{}}, snap |-> FALSE, aptitude |-> FALSE,
       inorder |-> FALSE],
      [answers |-> {Ok, Raised},
       oks |-> {{}}, snap |-> FALSE, aptitude |-> FALSE,
       inorder |-> FALSE] }

\* A batch larger than the pool: PoolTools packages, one more than
\* max_workers allows at a time.  Every primary command exits 0, and the
\* primary commands return in the order the pool took the packages.
PoolTools == 11
PoolWorld ==
    [answers |-> {Ok}, oks |-> {{}}, snap |-> FALSE, aptitude |-> FALSE,
     inorder |-> TRUE]

\* --------------------------------------------------------------- the call
APIs == {"install_tool", "install_tools", "remove_tool", "remove_tools",
         "update_tool", "update_tools"}
Verb(a) == CASE a \in {"install_tool", "install_tools"} -> "install"
             [] a \in {"remove_tool", "remove_tools"} -> "remove"
             [] a \in {"update_tool", "update_tools"} -> "upgrade"
IsPlural(a) == a \in {"install_tools", "remove_tools", "update_tools"}

\* UsesBatch with the comparison off by one (len(tools) < 3)
MutUsesBatch(a, size) == ~IsPlural(a) \/ size < BatchLimit

\* len(tools) <= 3 in install_tools / remove_tools / update_tools
UsesBatch(a, size) == ~IsPlural(a) \/ size <= BatchLimit

Worlds(a, size) ==
    IF UsesBatch(a, size) THEN {OneShotWorld}
    ELSE CASE Verb(a) = "install" -> InstallWorlds
           [] Verb(a) = "remove" -> RemoveWorlds
           [] Verb(a) = "upgrade" -> UpdateWorlds

\* tool 1 carries a name the python pinning strategy applies to
\* ("python3-" in tool_name or tool_name in ['enum4linux', 'xplico'])
IsPinName(t) == t = 1

VARIABLES
    api,              \* the method called
    n,                \* len(tools); the packages are 1..n
    confirm,          \* the prompt: "pending", "passed" or "declined"
    world,            \* what the system answers during this call
    pc,               \* "confirm", "repo", "dispatch", "workers", "done"
    repo,             \* what add_repository did: "none", "True" or the error
    verdict,          \* "none", "True", "False" or the exception raised
    combined,         \* the combined invocations issued: the package sets
    shot,             \* the answer the combined invocation got
    primary,          \* primary[t]: primary single-package invocations of t
    wpc,              \* worker of t: "queued", "mid", "fallback", "count", "done"
    tmp,              \* tmp[t]: the counter value the worker has loaded (0 when it holds none)
    completed_tools,
    progress,         \* the count the last display_progress call showed (of n)
    failed_tools,     \* the (tool, stderr) pairs appended
    skipped_tools,    \* the (tool, reason) pairs appended
    not_installed,
    already_newest,
    results,          \* results[t]: what t's future returned: "none", "True", "False"
    outcome,          \* outcome[t]: "none", "Success", "Skipped", "Failed"
    attempts,         \* attempts[t]: the fallback attempts made for t
    primary_result,   \* primary_result[t]: what t's primary command returned (the worker's result, stderr)
    summary,          \* the counts the installation summary printed
    printed,          \* the failing packages printed, with their reasons:
                      \* listed (in the summary) and critical (before the raise)
    error_msg,        \* what the message of the error raised after executor.map says
    typed,            \* the line safe_input has just returned to the confirmation
                      \* prompt ("none": no prompt, or the method has moved on)
    \* -- Application (NuKatoo4.py): the prompt loops
    stack,            \* the prompt loops entered and not left, the reading one last
    option,           \* the line the last prompt read
    at,               \* the prompt loop that read it
    reply,            \* what the loop answered it with
    inputs,           \* the number of lines read so far
    exit_code,        \* -1 while the application runs, then its exit code
    \* -- ToolManager.check_for_updates
    installed,        \* the packages installed on the system
    upgradable,       \* the installed packages with an upgrade pending
    checking,         \* len(tools); the tools passed are 1..checking
    check_results,    \* check_results[t]: what t's worker returned or raised
    check_pc,         \* "checking" while the workers run, then "returned"
    update_info,      \* the dictionary check_for_updates returns
    \* -- CategoryManager.__init__
    built_in,         \* the number of built-in categories
    plugin_ids,       \* the IDs the plugins declare their categories under
    plugin_queue,     \* the plugin IDs the merge loop has not reached yet
    categories,       \* self.categories: ID -> category
    max_id

vars == <<api, n, confirm, world, pc, repo, verdict, combined, shot, primary, wpc,
          tmp, completed_tools, progress, failed_tools, skipped_tools, not_installed,
          already_newest, results, outcome, attempts, primary_result, summary, printed,
          error_msg, typed, stack, option, at, reply, inputs, exit_code,
          installed, upgradable, checking, check_results, check_pc, update_info,
          built_in, plugin_ids, plugin_queue, categories, max_id>>

Tools == 1..n
NoSummary == [successful |-> -1, skipped |-> -1, failed |-> -1]
NoAnswer == [code |-> -1, stderr |-> {}]
NothingPrinted == [listed |-> {}, critical |-> {}]
NoError == [names |-> {}, failed |-> -1, of |-> -1]

callVars == <<api, n, world>>
\* the variables of a ToolManager call
toolVars == <<api, n, confirm, world, pc, repo, verdict, combined, shot, primary,
              wpc, tmp, completed_tools, progress, failed_tools, skipped_tools,
              not_installed, already_newest, results, outcome, attempts,
              primary_result, summary, printed, error_msg, typed>>
appVars == <<stack, option, at, reply, inputs, exit_code>>
\* the variables no method of ToolManager touches
updVars == <<installed, upgradable, checking, check_results, check_pc, update_info>>
mergeVars == <<built_in, plugin_ids, plugin_queue, categories, max_id>>
restVars == <<appVars, updVars, mergeVars>>

\* the application at its main prompt, nothing typed yet
AppStart ==
    /\ option = "none"
    /\ at = "none"
    /\ reply = "none"
    /\ inputs = 0
    /\ exit_code = -1
AppIdle == stack = <<"main">> /\ AppStart
\* no merge of categories is in progress
NoMerge ==
    /\ built_in = 0
    /\ plugin_ids = {}
    /\ plugin_queue = << >>
    /\ categories = << >>
    /\ max_id = 0
\* no check for updates is in progress
NoCheck ==
    /\ installed = {}
    /\ upgradable = {}
    /\ checking = 0
    /\ check_results = << >>
    /\ check_pc = "returned"
    /\ update_info = << >>
outVars == <<summary, printed, error_msg>>
workerVars == <<wpc, tmp, completed_tools, progress, failed_tools, skipped_tools,
                not_installed, already_newest, results, outcome, attempts,
                primary_result>>

\* the state of a call that has just been made
Fresh ==
    /\ confirm = "pending"
    /\ typed = "none"
    /\ pc = "confirm"
    /\ repo = "none"
    /\ verdict = "none"
    /\ combined = << >>
    /\ shot = NoAnswer
    /\ primary = [t \in 1..n |-> 0]
    /\ wpc = [t \in 1..n |-> "queued"]
    /\ tmp = [t \in 1..n |-> 0]
    /\ completed_tools = 0
    /\ progress = 0
    /\ failed_tools = {}
    /\ skipped_tools = {}
    /\ not_installed = 0
    /\ already_newest = 0
    /\ results = [t \in 1..n |-> "none"]
    /\ outcome = [t \in 1..n |-> "none"]
    /\ attempts = [t \in 1..n |-> << >>]
    /\ primary_result = [t \in 1..n |-> NoAnswer]
    /\ summary = NoSummary
    /\ printed = NothingPrinted
    /\ error_msg = NoError

Init ==
    /\ api \in APIs
    /\ n \in (IF IsPlural(api) THEN 1..MaxTools ELSE {1})
    /\ world \in Worlds(api, n)
    /\ Fresh
    /\ AppIdle
    /\ NoCheck
    /\ NoMerge

\* the calls of Init and the install and remove batches of PoolTools packages
InitPool ==
    \/ Init
    \/ /\ api \in {"install_tools", "remove_tools"}
       /\ n = PoolTools
       /\ world = PoolWorld
       /\ Fresh
       /\ AppIdle
       /\ NoCheck
       /\ NoMerge

\* the confirmation prompt of install_tool(s) and remove_tool(s): safe_input
\* returns the line typed ("" on Ctrl+C); install goes on unless it is "n",
\* remove goes on only if it is "y"
Answers == {"y", "n", ""}
\* Confirmed that goes on only if the line is "y", for install as for remove
MutConfirmed(verb, answer) == answer = "y"

Confirmed(verb, answer) ==
    IF verb = "install" THEN answer # "n" ELSE answer = "y"

\* whether the method prompts: update_tool(s) never do, the others unless
\* skip_confirmation
Prompts(verb, skip_confirmation) == verb # "upgrade" /\ ~skip_confirmation

\* the head of each method, up to add_repository (install, update) or to the
\* choice of the path (remove)
Confirm ==
    /\ pc = "confirm"
    /\ \E skip_confirmation \in BOOLEAN, answer \in Answers :
         /\ typed' = IF Prompts(Verb(api), skip_confirmation) THEN answer ELSE "none"
         /\ IF Prompts(Verb(api), skip_confirmation) /\ ~Confirmed(Verb(api), answer)
            THEN /\ pc' = "done"
                 /\ confirm' = "declined"
                 /\ verdict' = "False"
            ELSE /\ pc' = (IF Verb(api) = "remove" THEN "dispatch" ELSE "repo")
                 /\ confirm' = "passed"
                 /\ verdict' = verdict
    /\ UNCHANGED <<restVars, callVars, workerVars, repo, combined, shot, primary, outVars>>

\* RepositoryManager.add_repository(None): True, or one of the exceptions it
\* documents (it has no path that returns False)
AddRepositoryOutcomes == {"True", "RepositoryError", "PermissionError",
                          "FileOperationError"}

\* RepositoryVerdict that goes on whatever add_repository did
MutRepositoryVerdict(r) == "none"

\* what install_tool(s) / update_tool(s) make of add_repository's outcome:
\* False raises RepositoryError, RepositoryError and PermissionError pass,
\* anything else is wrapped by the final except Exception
RepositoryVerdict(r) ==
    CASE r = "True" -> "none"
      [] r = "False" -> "RepositoryError"
      [] r = "RepositoryError" -> "RepositoryError"
      [] r = "PermissionError" -> "PermissionError"
      [] OTHER -> "ToolInstallationError"

AddRepository ==
    /\ pc = "repo"
    /\ \E r \in AddRepositoryOutcomes :
         /\ repo' = r
         /\ verdict' = RepositoryVerdict(r)
         /\ pc' = (IF RepositoryVerdict(r) = "none" THEN "dispatch" ELSE "done")
    /\ typed' = "none"
    /\ UNCHANGED <<restVars, callVars, confirm, workerVars, combined, shot, primary, outVars>>

\* the verdict of the one invocation of a single-tool method or of a batch of
\* at most BatchLimit packages
OneShotVerdict(a, r) ==
    CASE a = "install_tool"  -> InstallToolVerdict(r.code, r.stderr)
      [] a = "install_tools" -> BatchInstallVerdict(r.code, r.stderr)
      [] a = "remove_tool"   -> RemoveToolVerdict(r.code, r.stderr)
      [] a = "remove_tools"  -> BatchRemoveVerdict(r.code, r.stderr)
      [] a = "update_tool"   -> UpdateToolVerdict(r.code, r.stderr)
      [] a = "update_tools"  -> BatchUpdateVerdict(r.code, r.stderr)

\* install_tool, remove_tool, update_tool and the _batch_* methods: one
\* command naming every package, then the verdict from its answer
RunCombined ==
    /\ pc = "dispatch"
    /\ UsesBatch(api, n)
    /\ \E r \in world.answers :
         /\ combined' = Append(combined, Tools)
         /\ shot' = r
         /\ verdict' = OneShotVerdict(api, r)
    /\ pc' = "done"
    /\ typed' = "none"
    /\ UNCHANGED <<restVars, callVars, confirm, workerVars, repo, primary, outVars>>

\* the _parallel_* methods up to executor.map
StartParallel ==
    /\ pc = "dispatch"
    /\ ~UsesBatch(api, n)
    /\ pc' = "workers"
    /\ typed' = "none"
    /\ UNCHANGED <<restVars, callVars, confirm, workerVars, repo, verdict, combined, shot, primary, outVars>>

\* a pool with a thread for every package
MutPoolSize == n

\* ParallelExecutor(max_workers=min(10, len(tools)))
PoolSize == Min(MaxWorkers, n)
Running == {t \in Tools : wpc[t] \in {"mid", "fallback", "count"}}

\* A pool thread takes package t, runs its primary command and, the command
\* having returned, loads completed_tools for `completed_tools += 1`.  The
\* command's answer stays local to the thread; it is drawn where the thread
\* first acts on it (WorkerInstall, WorkerOther).
WorkerRun(t) ==
    /\ pc = "workers"
    /\ wpc[t] = "queued"
    /\ Cardinality(Running) < PoolSize
    /\ world.inorder => \A u \in 1..(t - 1) : wpc[u] # "queued"
    /\ primary' = [primary EXCEPT ![t] = @ + 1]
    /\ tmp' = [tmp EXCEPT ![t] = completed_tools]
    /\ wpc' = [wpc EXCEPT ![t] = "mid"]
    /\ UNCHANGED <<restVars, callVars, typed, confirm, pc, repo, verdict, combined, shot, completed_tools,
                   progress, failed_tools, skipped_tools, not_installed,
                   already_newest, results, outcome, attempts, primary_result,
                   outVars>>

\* InstallClass without the skippable test: every package whose fallbacks
\* failed is a failure
MutInstallClass(r, log) ==
    IF r.code = 0 THEN "Success"
    ELSE IF FallbackSucceeded(log) THEN "Success"
    ELSE "Failed"

\* the class install_single_tool gives a package: from the primary command's
\* exit code, the fallbacks and the classification of the primary stderr
InstallClass(r, log) ==
    IF r.code = 0 THEN "Success"
    ELSE IF FallbackSucceeded(log) THEN "Success"
    ELSE IF IsSkippableError(r.stderr) THEN "Skipped"
    ELSE "Failed"

\* what install_single_tool returns for each class
InstallReturn(class) == IF class = "Failed" THEN "False" ELSE "True"

\* a worker without the except clause: the exception leaves the worker
MutWorkerExcept(t, e) ==
    /\ failed_tools' = failed_tools
    /\ results' = [results EXCEPT ![t] = "raised"]
    /\ outcome' = [outcome EXCEPT ![t] = "none"]
    /\ wpc' = [wpc EXCEPT ![t] = "done"]
    /\ UNCHANGED <<completed_tools, progress>>

\* the `except Exception as e` of install_single_tool / remove_single_tool /
\* update_single_tool, for a run_command that raised:
\* failed_tools.append((tool_name, str(e))); return False.  The counter and the
\* progress display are passed over.
WorkerExcept(t, e) ==
    /\ failed_tools' = failed_tools \cup {<<t, e.stderr>>}
    /\ results' = [results EXCEPT ![t] = "False"]
    /\ outcome' = [outcome EXCEPT ![t] = "Failed"]
    /\ wpc' = [wpc EXCEPT ![t] = "done"]
    /\ UNCHANGED <<completed_tools, progress>>

\* install_single_tool from the store of `completed_tools += 1` to the test of
\* the exit code: display_progress(completed_tools, total_tools) follows the
\* store at once; exit code 0 returns True, any other goes on to the fallbacks
WorkerInstall(t) ==
    /\ pc = "workers"
    /\ Verb(api) = "install"
    /\ wpc[t] = "mid"
    /\ \E r \in world.answers :
         /\ primary_result' = [primary_result EXCEPT ![t] = r]
         /\ IF r = Raised
            THEN WorkerExcept(t, r)
            ELSE /\ completed_tools' = tmp[t] + 1
                 /\ progress' = completed_tools'
                 /\ failed_tools' = failed_tools
                 /\ IF r.code = 0
                    THEN /\ outcome' = [outcome EXCEPT ![t] = InstallClass(r, << >>)]
                         /\ results' = [results EXCEPT ![t] =
                                          InstallReturn(InstallClass(r, << >>))]
                         /\ wpc' = [wpc EXCEPT ![t] = "done"]
                    ELSE /\ wpc' = [wpc EXCEPT ![t] = "fallback"]
                         /\ UNCHANGED <<outcome, results>>
    /\ tmp' = [tmp EXCEPT ![t] = 0]
    /\ UNCHANGED <<restVars, callVars, typed, confirm, pc, repo, verdict, combined, shot, primary,
                   skipped_tools, attempts, not_installed, already_newest,
                   outVars>>

\* install_single_tool for a primary command that failed: the fallbacks in
\* their order, then the classification of the primary stderr and the append
\* to skipped_tools / failed_tools
WorkerFallback(t) ==
    /\ pc = "workers"
    /\ wpc[t] = "fallback"
    /\ \E oks \in world.oks :
         LET r == primary_result[t]
             env == [oks |-> oks, snap |-> world.snap, aptitude |-> world.aptitude]
             log == TryInstallationFallbacks(r.stderr, IsPinName(t), env)
             class == InstallClass(r, log)
         IN /\ attempts' = [attempts EXCEPT ![t] = log]
            /\ outcome' = [outcome EXCEPT ![t] = class]
            /\ results' = [results EXCEPT ![t] = InstallReturn(class)]
            /\ skipped_tools' = IF class = "Skipped"
                                THEN skipped_tools \cup {<<t, GetErrorReason(r.stderr)>>}
                                ELSE skipped_tools
            /\ failed_tools' = IF class = "Failed"
                               THEN failed_tools \cup {<<t, r.stderr>>}
                               ELSE failed_tools
    /\ wpc' = [wpc EXCEPT ![t] = "done"]
    /\ UNCHANGED <<restVars, callVars, typed, confirm, pc, repo, verdict, combined, shot, primary,
                   tmp, completed_tools, progress, primary_result,
                   not_installed, already_newest, outVars>>

\* RemoveClass without the not-installed test
MutRemoveClass(r) == IF r.code = 0 THEN "Success" ELSE "Failed"

\* remove_single_tool / update_single_tool: the class of a primary answer
RemoveClass(r) ==
    IF r.code = 0 THEN "Success"
    ELSE IF Has(r.stderr, Unloc) \/ Has(r.stderr, NotInst) THEN "Skipped"
    ELSE "Failed"

\* UpdateClass without the already-newest test
MutUpdateClass(r) == IF r.code = 0 THEN "Success" ELSE "Failed"

UpdateClass(r) ==
    IF r.code = 0 THEN "Success"
    ELSE IF Has(r.stderr, Newest) THEN "Skipped"
    ELSE "Failed"

OtherClass(verb, r) == IF verb = "remove" THEN RemoveClass(r) ELSE UpdateClass(r)

\* remove_single_tool / update_single_tool after the store of completed_tools.
\* A Skipped package loads not_installed / already_newest for its `+= 1`.
WorkerOther(t) ==
    /\ pc = "workers"
    /\ Verb(api) # "install"
    /\ wpc[t] = "mid"
    /\ \E r \in world.answers :
         LET class == OtherClass(Verb(api), r) IN
         /\ primary_result' = [primary_result EXCEPT ![t] = r]
         /\ IF r = Raised
            THEN /\ WorkerExcept(t, r)
                 /\ tmp' = [tmp EXCEPT ![t] = 0]
            ELSE /\ completed_tools' = tmp[t] + 1
                 /\ progress' = completed_tools'
                 /\ IF class = "Skipped"
                    THEN /\ tmp' = [tmp EXCEPT ![t] =
                                      IF Verb(api) = "remove" THEN not_installed
                                      ELSE already_newest]
                         /\ wpc' = [wpc EXCEPT ![t] = "count"]
                         /\ UNCHANGED <<failed_tools, results, outcome>>
                    ELSE /\ failed_tools' = IF class = "Failed"
                                            THEN failed_tools \cup {<<t, r.stderr>>}
                                            ELSE failed_tools
                         /\ results' = [results EXCEPT ![t] =
                                          IF class = "Failed" THEN "False" ELSE "True"]
                         /\ outcome' = [outcome EXCEPT ![t] = class]
                         /\ wpc' = [wpc EXCEPT ![t] = "done"]
                         /\ tmp' = [tmp EXCEPT ![t] = 0]
    /\ UNCHANGED <<restVars, callVars, typed, confirm, pc, repo, verdict, combined, shot, primary,
                   skipped_tools, not_installed, already_newest, attempts, outVars>>

\* the store of `not_installed += 1` / `already_newest += 1`, then return True
WorkerCount(t) ==
    /\ pc = "workers"
    /\ wpc[t] = "count"
    /\ IF Verb(api) = "remove"
       THEN not_installed' = tmp[t] + 1 /\ already_newest' = already_newest
       ELSE already_newest' = tmp[t] + 1 /\ not_installed' = not_installed
    /\ results' = [results EXCEPT ![t] = "True"]
    /\ outcome' = [outcome EXCEPT ![t] = "Skipped"]
    /\ wpc' = [wpc EXCEPT ![t] = "done"]
    /\ tmp' = [tmp EXCEPT ![t] = 0]
    /\ UNCHANGED <<restVars, callVars, typed, confirm, pc, repo, verdict, combined, shot, primary,
                   completed_tools, progress, failed_tools, skipped_tools,
                   attempts, primary_result, outVars>>

\* any(results) where the code has all(results)
MutAnyTrue == \E t \in 1..n : results[t] = "True"

\* executor.map returns once every future is done; sum(results) / all(results)
Successful == Cardinality({t \in Tools : results[t] = "True"})
AllTrue == \A t \in Tools : results[t] = "True"

ParallelVerdict(verb) ==
    CASE verb = "install" ->
           ParallelInstallVerdict(Successful, Cardinality(failed_tools),
                                  Cardinality(skipped_tools), n)
      [] verb = "remove" -> ParallelRemoveVerdict(AllTrue, not_installed, n)
      [] verb = "upgrade" -> ParallelUpdateVerdict(AllTrue)

\* the packages of the "Critical failures" list: failed_tools[:5], the first
\* CriticalCap entries in the order the workers appended them
CriticalCap == 5
FirstFailures(failures) ==
    {c \in SUBSET failures :
        Cardinality(c) = Min(CriticalCap, Cardinality(failures))}

\* the failures as the summary prints them: tool and _get_error_reason(error)
WithReasons(failures) == {<<e[1], GetErrorReason(e[2])>> : e \in failures}

\* ErrorMessage that counts the failures against the whole batch
MutErrorMessage(verb, failed, skipped, total) ==
    [names |-> {}, failed |-> failed, of |-> total]

\* error_msg of the error raised after executor.map:
\* "Too many installation failures: {failed}/{installable} installable tools
\* failed", "Failed to remove|update {failed} out of {total} tools"; the
\* message names no package
ErrorMessage(verb, failed, skipped, total) ==
    [names |-> {}, failed |-> failed,
     of |-> IF verb = "install" THEN total - skipped ELSE total]

\* InstallSummary that leaves the skipped packages out
MutInstallSummary ==
    [successful |-> Cardinality({t \in 1..n : results[t] = "True"}),
     skipped |-> 0,
     failed |-> Cardinality(failed_tools)]

\* the installation summary printed by _parallel_install_tools
InstallSummary ==
    [successful |-> Successful, skipped |-> Cardinality(skipped_tools),
     failed |-> Cardinality(failed_tools)]

\* a map that returns with the first future done
MutAllDone == \E t \in 1..n : wpc[t] = "done"

\* ParallelExecutor.map returns when as_completed has yielded every future
\* and the `with` block has shut the pool down (shutdown(wait=True))
AllDone == \A t \in Tools : wpc[t] = "done"

\* the _parallel_* methods from the return of executor.map on
Aggregate ==
    /\ pc = "workers"
    /\ AllDone
    /\ summary' = IF Verb(api) = "install" THEN InstallSummary ELSE summary
    /\ verdict' = ParallelVerdict(Verb(api))
    /\ error_msg' = IF verdict' = "ToolInstallationError"
                    THEN ErrorMessage(Verb(api), Cardinality(failed_tools),
                                      Cardinality(skipped_tools), n)
                    ELSE error_msg
    /\ \E c \in FirstFailures(failed_tools) :
         printed' = [listed |-> IF Verb(api) = "install"
                                THEN WithReasons(failed_tools)
                                ELSE failed_tools,
                     critical |-> IF Verb(api) = "install"
                                     /\ verdict' = "ToolInstallationError"
                                  THEN WithReasons(c) ELSE {}]
    /\ pc' = "done"
    /\ UNCHANGED <<restVars, callVars, typed, confirm, workerVars, repo, combined, shot,
                   primary>>

Next ==
    \/ Confirm
    \/ AddRepository
    \/ RunCombined
    \/ StartParallel
    \/ \E t \in Tools : WorkerRun(t)
    \/ \E t \in Tools : WorkerInstall(t)
    \/ \E t \in Tools : WorkerFallback(t)
    \/ \E t \in Tools : WorkerOther(t)
    \/ \E t \in Tools : WorkerCount(t)
    \/ Aggregate

Spec == Init /\ [][Next]_vars

\* the same program, with the batches larger than the pool among its calls
SpecPool == InitPool /\ [][Next]_vars

\* ------------------------------------------------------------- the claims
\* a per-package install batch whose coordinator has decided
ParallelInstallDone ==
    /\ pc = "done"
    /\ api = "install_tools"
    /\ n > BatchLimit
    /\ summary # NoSummary

FailedCount == Cardinality(failed_tools)
SkippedCount == Cardinality(skipped_tools)
Installable == n - SkippedCount
InFailed(t) == \E e \in failed_tools : e[1] = t
InSkipped(t) == \E e \in skipped_tools : e[1] = t

\* C1: once all workers of a per-package install batch have finished, the
\* counts reported as successfully installed, skipped and failed add up to the
\* number of packages, and every package is counted in exactly one of them.
C1_Partition ==
    ParallelInstallDone =>
        /\ summary.successful + summary.skipped + summary.failed = n
        /\ \A t \in Tools :
             Cardinality({k \in {"successful", "skipped", "failed"} :
                 \/ k = "successful" /\ results[t] = "True"
                 \/ k = "skipped" /\ InSkipped(t)
                 \/ k = "failed" /\ InFailed(t)}) = 1

\* C2: a per-package install batch that finishes with installable > 0 and
\* failed / installable > 0.3 raises ToolInstallationError, never returns True.
C2_ThresholdRaises ==
    (/\ ParallelInstallDone
     /\ Installable > 0
     /\ FailedCount * RateDen > RateNum * Installable)
        => verdict = "ToolInstallationError"

PrimaryOk(t) == outcome[t] = "Success" /\ attempts[t] = << >>
\* package t was unlocatable and no fallback installed it
Unavailable(t) ==
    /\ outcome[t] = "Skipped"
    /\ primary_result[t].stderr = TextUnloc
    /\ <<t, GetErrorReason(TextUnloc)>> \in skipped_tools
UnavailableCount == Cardinality({t \in Tools : Unavailable(t)})

\* a finished install batch in which some packages are unlocatable and every
\* other package installs
SomeUnavailableRestInstalls ==
    /\ pc = "done"
    /\ api = "install_tools"
    /\ IF n <= BatchLimit
       THEN shot = Fail(TextUnloc)
       ELSE /\ summary # NoSummary
            /\ \A t \in Tools : PrimaryOk(t) \/ Unavailable(t)
            /\ \E t \in Tools : Unavailable(t)

\* C4 as stated: such a batch, of any size, is reported as overall success.
C4_AnySizeSucceeds ==
    SomeUnavailableRestInstalls => verdict = "True"

\* C4 (amended): for more than 3 packages, of which at least one installs, such
\* a batch returns True with the unlocatable packages counted as skipped and
\* none as failed; for 3 or fewer packages the combined invocation raises
\* ToolInstallationError.
C4_LargeBatchSucceeds ==
    SomeUnavailableRestInstalls =>
        IF n <= BatchLimit
        THEN verdict = "ToolInstallationError"
        ELSE (\E t \in Tools : PrimaryOk(t)) =>
                /\ verdict = "True"
                /\ summary.skipped = UnavailableCount
                /\ summary.failed = 0

\* both halves happen: 4 packages with one unlocatable, and 3 packages whose
\* combined invocation cannot locate one
C4_Witness ==
    /\ SomeUnavailableRestInstalls
    /\ \/ n = 4 /\ UnavailableCount = 1 /\ verdict = "True"
       \/ n = 3 /\ verdict = "ToolInstallationError"

\* the invocations the call has issued so far
CombinedIssued == Len(combined)
Dispatched ==
    /\ pc = "done"
    /\ confirm = "passed"
    /\ Verb(api) = "remove" \/ repo = "True"

\* C5: install_tools, remove_tools and update_tools issue exactly one
\* invocation naming all packages for 3 or fewer packages, and exactly one
\* primary invocation per package for more than 3.
C5_OneOrOnePerPackage ==
    IsPlural(api) =>
        IF n <= BatchLimit
        THEN /\ \A t \in Tools : primary[t] = 0
             /\ CombinedIssued <= 1
             /\ \A i \in 1..CombinedIssued : combined[i] = 1..n
             /\ Dispatched => CombinedIssued = 1
        ELSE /\ CombinedIssued = 0
             /\ \A t \in Tools : primary[t] <= 1
             /\ Dispatched => \A t \in Tools : primary[t] = 1

\* a batch of 3 that issued its one combined command
C5_Witness ==
    /\ api = "remove_tools"
    /\ n = BatchLimit
    /\ Dispatched
    /\ combined = << 1..3 >>

\* the combined install invocation failed with "Permission denied" in stderr
BatchPermissionDenied ==
    /\ pc = "done"
    /\ api = "install_tools"
    /\ n <= BatchLimit
    /\ shot.code > 0
    /\ Has(shot.stderr, "Permission denied")

\* C6 as stated: PermissionError whatever else stderr contains.
C6_AlwaysPermissionError ==
    BatchPermissionDenied => verdict = "PermissionError"

\* C6 (amended): PermissionError whenever stderr contains "Permission denied"
\* and neither "Could not resolve" nor "Failed to fetch"; no failure-rate
\* threshold is applied.
C6_PermissionErrorUnlessNetwork ==
    (BatchPermissionDenied /\ ~HasAny(shot.stderr, NetMarkers)) =>
        /\ verdict = "PermissionError"
        /\ summary = NoSummary

\* stderr holds more than the permission text
C6_Witness ==
    /\ BatchPermissionDenied
    /\ shot.stderr = TextPermUnloc
    /\ verdict = "PermissionError"

\* some package-manager install or upgrade command was issued
InstallCommandIssued ==
    \/ combined # << >>
    \/ \E t \in Tools : primary[t] > 0 \/ attempts[t] # << >>

\* C7: install and update calls run add_repository before any install or
\* upgrade command; if it fails no such command is issued and the call raises.
C7_RepositoryFirst ==
    Verb(api) \in {"install", "upgrade"} =>
        /\ InstallCommandIssued => repo = "True"
        /\ pc \in {"dispatch", "workers"} => repo = "True"
        /\ repo \notin {"none", "True"} =>
              /\ pc = "done"
              /\ ~InstallCommandIssued
              /\ verdict \in {"RepositoryError", "PermissionError",
                              "ToolInstallationError"}

\* add_repository raised something the method does not let through as it is
C7_Witness ==
    /\ api = "update_tools"
    /\ repo = "FileOperationError"
    /\ verdict = "ToolInstallationError"
    /\ ~InstallCommandIssued

\* a per-package batch whose coordinator has decided
ParallelDone == Dispatched /\ IsPlural(api) /\ n > BatchLimit
Ended(class) == {t \in Tools : outcome[t] = class}

\* C8: no update of the shared counters is lost: when a per-package batch
\* finishes, completed equals the number of packages whose primary command
\* returned, and the lists and the not-installed / already-newest counts hold
\* one entry per package that recorded one.
C8_NoLostUpdate ==
    ParallelDone =>
        /\ completed_tools = Cardinality({t \in Tools : primary[t] > 0})
        /\ FailedCount = Cardinality(Ended("Failed"))
        /\ Verb(api) = "install" => SkippedCount = Cardinality(Ended("Skipped"))
        /\ Verb(api) = "remove" => not_installed = Cardinality(Ended("Skipped"))
        /\ Verb(api) = "upgrade" => already_newest = Cardinality(Ended("Skipped"))

\* the strategies of a fallback log whose command ran, and the order the code
\* tries them in
Executed(log) == {log[i].s : i \in {j \in 1..Len(log) : log[j].r # "rejected"}}
Rank(s) ==
    CASE s = "minimal" -> 1 [] s = "pin" -> 2 [] s = "aptget" -> 3
      [] s = "aptitude" -> 4 [] s = "fix" -> 5 [] s = "alt" -> 6 [] s = "snap" -> 7
InOrder(log) == \A i, j \in 1..Len(log) : i < j => Rank(log[i].s) < Rank(log[j].s)
NoneSucceeded(log) == \A i \in 1..Len(log) : log[i].r # "ok"
FailedInstalls ==
    IF api = "install_tools" /\ n > BatchLimit THEN failed_tools ELSE {}

\* C9: in a per-package install batch a package is recorded as Failed only
\* after the minimal install, --fix-broken, the alternate names and (if snap
\* is available) the snap install were run for it in this order, all without
\* success.
C9_AllStrategiesTried ==
    \A e \in FailedInstalls :
        LET log == attempts[e[1]] IN
        /\ InOrder(log)
        /\ NoneSucceeded(log)
        /\ {"minimal", "fix", "alt"} \subseteq Executed(log)
        /\ world.snap => "snap" \in Executed(log)

\* C10: a remove or upgrade batch of more than 3 packages raises
\* ToolInstallationError if and only if at least one package ended Failed,
\* whatever the ratio of failures.
C10_RaisesIffAnyFailed ==
    (ParallelDone /\ Verb(api) \in {"remove", "upgrade"}) =>
        /\ verdict \in {"True", "False", "ToolInstallationError"}
        /\ verdict = "ToolInstallationError" <=> Ended("Failed") # {}

\* one failure in four, a ratio the install verb would tolerate, raises
C10_Witness ==
    /\ ParallelDone
    /\ Verb(api) \in {"remove", "upgrade"}
    /\ n = 4
    /\ Cardinality(Ended("Failed")) = 1
    /\ verdict = "ToolInstallationError"

\* a remove of at most 3 packages whose one invocation exited non-zero with
\* "is not installed" in stderr
RemoveSmallNotInstalled ==
    /\ pc = "done"
    /\ Verb(api) = "remove"
    /\ UsesBatch(api, n)
    /\ CombinedIssued = 1
    /\ shot.code # 0
    /\ Has(shot.stderr, NotInst)

\* C11 as stated: a remove of 3 or fewer packages whose invocation exits
\* non-zero with "is not installed" in stderr returns False and does not
\* raise, whatever else stderr contains.
C11_NotInstalledAlwaysFalse == RemoveSmallNotInstalled => verdict = "False"

\* C11 (amended): it returns False and does not raise unless stderr also
\* holds a permission marker, which is tested first.
C11_NotInstalledFalseUnlessPermission ==
    RemoveSmallNotInstalled =>
        IF HasAny(shot.stderr, PermMarkers)
        THEN verdict = "PermissionError"
        ELSE verdict = "False"

C11_Witness ==
    /\ RemoveSmallNotInstalled
    /\ api = "remove_tools"
    /\ n = BatchLimit
    /\ shot.stderr = TextNotInst
    /\ verdict = "False"

\* an invocation that reports its package as not installed
NotInstalledReport(r) ==
    r.code # 0 /\ Has(r.stderr, NotInst) /\ ~HasAny(r.stderr, PermMarkers)

\* a finished remove batch on a package set of which nothing is installed
RemoveOfNothingInstalled ==
    /\ Dispatched
    /\ api = "remove_tools"
    /\ IF UsesBatch(api, n) THEN NotInstalledReport(shot)
       ELSE \A r \in world.answers : NotInstalledReport(r)

NewestOrOk(r) == r.code # 0 => Has(r.stderr, Newest)

\* a finished upgrade batch in which every invocation that exited non-zero
\* said "is already the newest version"
UpgradeOfNewest ==
    /\ Dispatched
    /\ api = "update_tools"
    /\ IF UsesBatch(api, n) THEN NewestOrOk(shot)
       ELSE \A r \in world.answers : NewestOrOk(r)

\* C13 as stated: an upgrade batch in which every invocation that exits
\* non-zero says "is already the newest version" returns True without
\* raising, for batches of 3 or fewer packages and for larger ones.
C13_NewestAlwaysTrue == UpgradeOfNewest => verdict = "True"

\* C13 (amended): a batch of more than 3 packages counts those packages as up
\* to date, records no failure and returns True.  A batch of 3 or fewer
\* returns True only if stderr also holds "0 upgraded" and none of the
\* network, permission or missing-package markers; otherwise it raises.
C13_NewestTrueLargeOrZeroUpgraded ==
    UpgradeOfNewest =>
        IF ~UsesBatch(api, n)
        THEN /\ verdict = "True"
             /\ failed_tools = {}
             /\ \A t \in Tools : outcome[t] \in {"Success", "Skipped"}
        ELSE IF shot.code = 0 THEN verdict = "True"
        ELSE IF HasAny(shot.stderr, NetMarkers) THEN verdict = "NetworkError"
        ELSE IF HasAny(shot.stderr, PermMarkers) THEN verdict = "PermissionError"
        ELSE IF Has(shot.stderr, Unloc) \/ ~Has(shot.stderr, ZeroUp)
             THEN verdict = "ToolInstallationError"
        ELSE verdict = "True"

C13_Witness ==
    /\ UpgradeOfNewest
    /\ n > BatchLimit
    /\ \E t \in Tools : outcome[t] = "Skipped"
    /\ \E t \in Tools : outcome[t] = "Success"
    /\ verdict = "True"

\* a combined or single-tool invocation that exited non-zero
OneShotFailed ==
    /\ pc = "done"
    /\ UsesBatch(api, n)
    /\ CombinedIssued = 1
    /\ shot.code # 0

\* the classification table's first three rows, read in order
TableClass(stderr) ==
    IF HasAny(stderr, NetMarkers) THEN "network"
    ELSE IF HasAny(stderr, PermMarkers) THEN "permission"
    ELSE IF Has(stderr, Unloc) THEN "missing"
    ELSE "other"

\* C14 as stated: for install, remove and upgrade alike a non-zero exit is
\* classified as a network error on a network marker, as a permission error
\* on a permission marker, and as missing package on "Unable to locate
\* package".
C14_UniformClassification ==
    (OneShotFailed /\ TableClass(shot.stderr) # "other") =>
        /\ FailureClass(api, shot.stderr) = TableClass(shot.stderr)
        /\ verdict = ClassVerdict(TableClass(shot.stderr))

\* C14 (amended): the combined and single-tool paths of install and upgrade
\* classify so; remove classifies the permission markers alike, has no
\* network class, and takes "Unable to locate package" as not installed
\* (returns False).
C14_InstallUpgradeClassification ==
    OneShotFailed =>
        /\ verdict = ClassVerdict(FailureClass(api, shot.stderr))
        /\ (Verb(api) # "remove" /\ TableClass(shot.stderr) # "other") =>
              FailureClass(api, shot.stderr) = TableClass(shot.stderr)
        /\ Verb(api) = "remove" =>
              FailureClass(api, shot.stderr) =
                 IF HasAny(shot.stderr, PermMarkers) THEN "permission"
                 ELSE IF Has(shot.stderr, Unloc) \/ Has(shot.stderr, NotInst)
                      THEN "not_installed"
                 ELSE "generic"

\* an upgrade whose stderr holds a network and a permission marker is a
\* network error
C14_Witness ==
    /\ OneShotFailed
    /\ api = "update_tools"
    /\ shot.stderr = TextNetPerm
    /\ verdict = "NetworkError"

\* the packages of a per-package install batch whose worker has classified a
\* non-zero exit of the primary command
ClassifiedFailures ==
    IF api = "install_tools" /\ n > BatchLimit
    THEN {t \in Tools : wpc[t] = "done" /\ primary_result[t].code # 0}
    ELSE {}

\* the record install_single_tool made of package t
Recorded(t) ==
    [class |-> outcome[t],
     skipped |-> {e[2] : e \in {x \in skipped_tools : x[1] = t}},
     failed |-> {e[2] : e \in {x \in failed_tools : x[1] = t}}]

\* C15 as stated: two package invocations of an install batch that end with
\* identical stderr text always receive the identical classification,
\* whatever the package name and whatever other commands return.
C15_SameStderrSameClass ==
    \A t1, t2 \in ClassifiedFailures :
        primary_result[t1].stderr = primary_result[t2].stderr =>
            Recorded(t1) = Recorded(t2)

\* C15 (amended): when no fallback installed them, two packages of a
\* per-package install batch with identical stderr receive the identical
\* classification: Skipped if the text matches a skippable pattern, Failed
\* otherwise, recorded with that text.  A package a fallback installed is a
\* Success whatever its stderr.
C15_SameStderrSameClassAfterFallbacks ==
    /\ \A t1, t2 \in ClassifiedFailures :
          /\ primary_result[t1].stderr = primary_result[t2].stderr
          /\ ~FallbackSucceeded(attempts[t1])
          /\ ~FallbackSucceeded(attempts[t2])
          => Recorded(t1) = Recorded(t2)
    /\ \A t \in ClassifiedFailures :
          LET text == primary_result[t].stderr IN
          Recorded(t) =
             IF FallbackSucceeded(attempts[t])
             THEN [class |-> "Success", skipped |-> {}, failed |-> {}]
             ELSE IF IsSkippableError(text)
             THEN [class |-> "Skipped", skipped |-> {GetErrorReason(text)},
                   failed |-> {}]
             ELSE [class |-> "Failed", skipped |-> {}, failed |-> {text}]

\* two packages with the same skippable text, both Skipped, beside a failure
C15_Witness ==
    \E t1, t2, t3 \in ClassifiedFailures :
        /\ t1 # t2
        /\ primary_result[t1].stderr = primary_result[t2].stderr
        /\ outcome[t1] = "Skipped" /\ outcome[t2] = "Skipped"
        /\ outcome[t3] = "Failed"

\* C16: when every package of an install batch of more than 3 packages is
\* skipped (installable = total - skipped = 0), install_tools returns False
\* and raises no error.
C16_AllSkippedReturnsFalse ==
    (ParallelInstallDone /\ Installable = 0) => verdict = "False"

C16_Witness ==
    /\ ParallelInstallDone
    /\ \A t \in Tools : outcome[t] = "Skipped"
    /\ summary.skipped = n
    /\ verdict = "False"

\* a per-package install batch that ended by raising for too many failures
ThresholdRaised == ParallelInstallDone /\ verdict = "ToolInstallationError"

Errors == {"RepositoryError", "NetworkError", "PermissionError",
           "ToolInstallationError"}
InstallBatchRaised == pc = "done" /\ api = "install_tools" /\ verdict \in Errors

Finished == {t \in Tools : outcome[t] # "none"}

\* C19: in a per-package install batch, progress k of n is shown only when at
\* least k packages have reached their final outcome (Success, Skipped or
\* Failed), and n of n is never shown while a package is still worked on.
C19_ProgressAfterCompletion ==
    (api = "install_tools" /\ pc = "workers") =>
        /\ progress <= Cardinality(Finished)
        /\ progress = n => \A t \in Tools : wpc[t] = "done"

\* the packages a pool thread has taken and not yet returned from
InProcess == {t \in Tools : wpc[t] \notin {"queued", "done"}}

\* C20: in every per-package batch of n packages, at no moment are more than
\* min(10, n) packages being processed, and each package is processed by one
\* worker, once: its primary command is issued once, its fallbacks run while
\* it still holds its worker, and it has no outcome before a worker took it.
C20_PoolBound ==
    pc = "workers" =>
        /\ Cardinality(InProcess) <= Min(MaxWorkers, n)
        /\ \A t \in Tools :
             /\ primary[t] = (IF wpc[t] = "queued" THEN 0 ELSE 1)
             /\ wpc[t] = "queued" => outcome[t] = "none" /\ attempts[t] = << >>
             /\ attempts[t] # << >> => wpc[t] = "done"

\* the pool is full and a package waits for a thread
C20_Witness ==
    /\ pc = "workers"
    /\ n = PoolTools
    /\ Cardinality(InProcess) = MaxWorkers
    /\ \E t \in Tools : wpc[t] = "queued"

\* a per-package batch whose workers have been started
PerPackage == IsPlural(api) /\ n > BatchLimit /\ (pc = "workers" \/ Dispatched)

\* C21: the verdict of a per-package batch (return value or raised error) is
\* produced only after every submitted package has been run to its final
\* outcome: while a package is queued or in process there is no verdict, and
\* with the verdict every package has had its command issued and has an
\* outcome, whatever happened to the other packages.
C21_CoordinatorWaitsForAll ==
    PerPackage =>
        /\ pc = "workers" => verdict = "none"
        /\ pc = "done" =>
             /\ verdict # "none"
             /\ \A t \in Tools :
                  /\ wpc[t] = "done"
                  /\ primary[t] = 1
                  /\ outcome[t] \in {"Success", "Skipped", "Failed"}
                  /\ results[t] # "none"

\* a package whose run_command raised, one that failed, and the others run
\* to the end all the same
C21_Witness ==
    /\ PerPackage
    /\ pc = "done"
    /\ \E t, u \in Tools :
         /\ t < u
         /\ primary_result[t] = Raised
         /\ outcome[t] = "Failed"
         /\ outcome[u] = "Success"

\* the packages whose primary command did not exit 0: it returned another
\* code or raised
PrimaryFailed == {t \in Tools : primary_result[t] # NoAnswer /\ primary_result[t].code # 0}

\* C22: in the per-package paths the failure of a single package (non-zero
\* exit with any stderr, or an exception while running its command) becomes
\* that package's outcome and the worker returns True or False; the batch
\* raises only by the aggregate decision after all workers finished, and then
\* only ToolInstallationError with a failed package on record.
C22_FailuresResolvedLocally ==
    PerPackage =>
        /\ \A t \in PrimaryFailed :
             wpc[t] = "done" =>
                 /\ results[t] \in {"True", "False"}
                 /\ outcome[t] \in {"Success", "Skipped", "Failed"}
                 /\ (results[t] = "False") = (outcome[t] = "Failed")
                 /\ primary_result[t] = Raised => InFailed(t)
        /\ (\E t \in Tools : wpc[t] # "done") => verdict = "none"
        /\ verdict \in {"none", "True", "False", "ToolInstallationError"}
        /\ verdict = "ToolInstallationError" => Ended("Failed") # {}

\* a package whose command raised, in an install batch that returns True
C22_Witness ==
    /\ PerPackage
    /\ verdict = "True"
    /\ \E t \in Tools : primary_result[t] = Raised /\ results[t] = "False"

\* ------------------------------------------- NuKatoo4.py: the prompt loops
\* One behaviour is the application from Application.run() on, or a call of
\* Application.handle_tool_management(), the handler no branch of run()
\* reaches.  Every prompt reads one line per loop iteration.
MaxInputs == 3
\* the categories of CategoryManager.categories are 1..MaxCategories, each
\* with MaxCategoryTools tools
MaxCategories == 2
MaxCategoryTools == 2

\* the lines typed: the menu numbers, the navigation words, Ctrl+C (""), a
\* number that names nothing ("42") and a word no prompt knows ("x")
Numbers == {"0", "1", "2", "3", "4", "5", "6", "7", "42", "99"}
Words == {"back", "gohome", "exit", "quit", "help", "clear", "show", "x"}
Options == Numbers \cup Words \cup {""}

\* int(option) of a line of Numbers
IntOf(o) ==
    CASE o = "0" -> 0 [] o = "1" -> 1 [] o = "2" -> 2 [] o = "3" -> 3
      [] o = "4" -> 4 [] o = "5" -> 5 [] o = "6" -> 6 [] o = "7" -> 7
      [] o = "42" -> 42 [] o = "99" -> 99

\* the modules core/utils.py imports
UtilsImports == {"os", "sys", "logging", "subprocess", "hashlib", "tempfile",
                 "re"}
\* the exception classes with_error_handling names in its except clauses
\* before `except Exception`
NamedExceptions == {"KatoolinError", "PermissionError", "FileNotFoundError",
                    "IOError", "ConnectionError"}

\* with_error_handling(func), exc being what func raises ("none": it returns):
\* the triple's first component, and the exception that leaves the function.
\* The `except Exception` clause calls traceback.format_exc().
WithErrorHandling(exc) ==
    IF exc = "none" THEN [success |-> TRUE, raised |-> "none"]
    ELSE IF exc \in NamedExceptions THEN [success |-> FALSE, raised |-> "none"]
    ELSE IF "traceback" \in UtilsImports THEN [success |-> FALSE, raised |-> "none"]
    ELSE [success |-> FALSE, raised |-> "NameError"]

\* what int(option) raises
IntRaises(o) == IF o \in Numbers THEN "none" ELSE "ValueError"

Top(s) == s[Len(s)]
Pop(s) == SubSeq(s, 1, Len(s) - 1)
Stay(s, r) == [stack |-> s, reply |-> r]
\* the exception reaches the except clause of run(), which returns 1
Crash == [stack |-> << >>, reply |-> "crash"]
\* safe_exit(0, ...): sys.exit
Exit == [stack |-> << >>, reply |-> "exit"]
\* a manager method called from a prompt returns, or raises up to run()
Call(s, raises) == IF raises THEN Crash ELSE Stay(s, "action")

\* Application.run: one iteration of the main loop
MainMenu(s, o, raises) ==
    CASE o \in {"exit", "quit"} -> Exit
      [] o \in {"help", "5"} -> Stay(s, "help")
      [] o = "1" -> Stay(Append(s, "repository"), "menu")
      [] o = "2" -> Stay(Append(s, "categories"), "menu")
      [] o \in {"3", "4"} -> Call(s, raises)
      [] o = "6" -> Stay(s, "help")
      [] o = "7" -> Stay(s, "stats")
      [] o = "" -> [stack |-> << >>, reply |-> "return"]
      [] OTHER -> Stay(s, "invalid")

\* Application.handle_repository_menu
RepositoryMenu(s, o, raises) ==
    CASE o \in {"1", "2", "3", "4"} -> Call(s, raises)
      [] o = "5" -> Stay(Append(s, "custom"), "menu")
      [] o \in {"back", "gohome"} -> Stay(Pop(s), "back")
      [] o \in {"exit", "quit"} -> Exit
      [] o = "" -> Stay(Pop(s), "back")
      [] OTHER -> Stay(s, "invalid")

\* Application.handle_custom_repositories_menu; handle_repository_menu drops
\* the True that gohome returns
CustomRepositoriesMenu(s, o, raises) ==
    CASE o \in {"1", "2", "3"} -> Call(s, raises)
      [] o \in {"4", "back"} -> Stay(Pop(s), "back")
      [] o = "gohome" -> Stay(Pop(s), "back")
      [] o \in {"exit", "quit"} -> Exit
      [] o = "" -> Stay(Pop(s), "back")
      [] OTHER -> Stay(s, "invalid")

\* Application.handle_categories_menu
CategoriesMenu(s, o, raises) ==
    CASE o \in {"back", "gohome"} -> Stay(Pop(s), "back")
      [] o \in {"exit", "quit"} -> Exit
      [] o = "help" -> Stay(s, "help")
      [] o = "0" -> Call(s, raises)
      [] o = "" -> Stay(Pop(s), "back")
      [] OTHER ->
           LET r == WithErrorHandling(IntRaises(o)) IN
           IF r.raised # "none" THEN Crash
           ELSE IF ~r.success THEN Stay(s, "invalid")
           ELSE IF IntOf(o) \in 1..MaxCategories
                THEN Stay(Append(s, "category"), "menu")
           ELSE Stay(s, "invalid_number")

\* Application.handle_category_menu; gohome returns True, on which
\* handle_categories_menu breaks
CategoryMenu(s, o, raises) ==
    CASE o = "back" -> Stay(Pop(s), "back")
      [] o = "gohome" -> Stay(Pop(Pop(s)), "back")
      [] o \in {"exit", "quit"} -> Exit
      [] o = "help" -> Stay(s, "help")
      [] o \in {"clear", "show"} -> Stay(s, "shown")
      [] o \in {"0", "99"} -> Call(s, raises)
      [] o = "" -> Stay(Pop(s), "back")
      [] OTHER ->
           LET r == WithErrorHandling(IntRaises(o)) IN
           IF r.raised # "none" THEN Crash
           ELSE IF ~r.success THEN Stay(s, "invalid")
           ELSE IF IntOf(o) - 1 \in 0..(MaxCategoryTools - 1)
                THEN Call(s, raises)
           ELSE Stay(s, "invalid_number")

\* Application.handle_tool_management
ToolManagement(s, o, raises) ==
    CASE o \in {"1", "2", "3", "4"} -> Call(s, raises)
      [] o \in {"5", "back"} -> Stay(Pop(s), "back")
      [] o = "gohome" -> Stay(Pop(s), "back")
      [] o \in {"exit", "quit"} -> Exit
      [] o = "" -> Stay(Pop(s), "back")
      [] OTHER -> Stay(s, "invalid")

\* the code the process ends with: 1 from run()'s except clause, 0 otherwise
ExitCode(r) ==
    IF r.stack # << >> THEN -1 ELSE IF r.reply = "crash" THEN 1 ELSE 0

\* one iteration of the loop `menu`, answering with `r`
Prompt(menu, o, r) ==
    /\ stack # << >>
    /\ Top(stack) = menu
    /\ inputs < MaxInputs
    /\ option' = o
    /\ at' = menu
    /\ stack' = r.stack
    /\ reply' = r.reply
    /\ inputs' = inputs + 1
    /\ exit_code' = ExitCode(r)
    /\ UNCHANGED <<toolVars, updVars, mergeVars>>

Run ==
    \E o \in Options, raises \in BOOLEAN :
        Prompt("main", o, MainMenu(stack, o, raises))
HandleRepositoryMenu ==
    \E o \in Options, raises \in BOOLEAN :
        Prompt("repository", o, RepositoryMenu(stack, o, raises))
HandleCustomRepositoriesMenu ==
    \E o \in Options, raises \in BOOLEAN :
        Prompt("custom", o, CustomRepositoriesMenu(stack, o, raises))
HandleCategoriesMenu ==
    \E o \in Options, raises \in BOOLEAN :
        Prompt("categories", o, CategoriesMenu(stack, o, raises))
HandleCategoryMenu ==
    \E o \in Options, raises \in BOOLEAN :
        Prompt("category", o, CategoryMenu(stack, o, raises))
HandleToolManagement ==
    \E o \in Options, raises \in BOOLEAN :
        Prompt("tool_management", o, ToolManagement(stack, o, raises))

\* no call of ToolManager is in progress
NoCall ==
    /\ api = "install_tool"
    /\ n = 1
    /\ world = OneShotWorld
    /\ Fresh

InitApp ==
    /\ NoCall
    /\ stack \in {<<"main">>, <<"tool_management">>}
    /\ AppStart
    /\ NoCheck
    /\ NoMerge

NextApp ==
    \/ Run
    \/ HandleRepositoryMenu
    \/ HandleCustomRepositoriesMenu
    \/ HandleCategoriesMenu
    \/ HandleCategoryMenu
    \/ HandleToolManagement

SpecApp == InitApp /\ [][NextApp]_vars

\* the five words the help screen and the prompts use to navigate
NavigationWords == {"back", "gohome", "exit", "quit", "help"}

\* C23: at every prompt loop (main menu, repository menu, custom
\* repositories menu, categories menu, tool list of a category, tool
\* management menu) each of back, gohome, exit, quit and help is recognized
\* and never answered with the invalid-command message.
C23_NavigationEverywhere ==
    option \in NavigationWords => reply # "invalid"

\* C26: from the main menu, entering 5 opens the Tool Management menu.
C26_FiveOpensToolManagement ==
    (at = "main" /\ option = "5") =>
        /\ stack # << >>
        /\ Top(stack) = "tool_management"

\* C28: with_error_handling never propagates an exception, so a word no
\* prompt knows, typed at the categories prompt or at a category's tool
\* prompt, is answered with the invalid-command message and the loop goes on.
C28_UnknownWordIsInvalid ==
    (at \in {"categories", "category"} /\ option = "x") =>
        /\ reply = "invalid"
        /\ stack # << >>
        /\ Top(stack) = at
        /\ exit_code = -1

\* --------------------------------------------- the claims on ToolManager
\* C24: install_tool(name) returns True whenever `apt install -y name` exits
\* with code 0 after the repository precondition succeeded; a successful
\* installation never ends in a raised error.
C24_InstalledReturnsTrue ==
    (api = "install_tool" /\ Dispatched /\ shot.code = 0) => verdict = "True"

\* the entries of a fallback log for the --fix-broken strategy
FixEntries(log) == {i \in 1..Len(log) : log[i].s = "fix"}

\* C27: in a per-package install batch, when the primary install of a package
\* fails with stderr mentioning "dependency" or "broken", the --fix-broken
\* command is actually executed (unless an earlier strategy already
\* succeeded), and if it exits 0 the package is counted as installed.
C27_FixBrokenExecuted ==
    (api = "install_tools" /\ n > BatchLimit) =>
        \A t \in Tools :
            (/\ wpc[t] = "done"
             /\ primary_result[t].code > 0
             /\ Has(primary_result[t].stderr, "dependency")
                  \/ Has(primary_result[t].stderr, "broken"))
            => LET log == attempts[t] IN
               /\ FallbackSucceeded(log) \/ FixEntries(log) # {}
               /\ \A i \in FixEntries(log) :
                    /\ log[i].r \in {"ok", "fail"}
                    /\ log[i].r = "ok" => outcome[t] = "Success"

\* the line typed declines the prompt: 'n' for install, anything but 'y' for
\* remove
Declines == \/ Verb(api) = "install" /\ typed = "n"
            \/ Verb(api) = "remove" /\ typed \notin {"y", "none"}

\* C30: if the user declines the confirmation prompt (answers 'n' for
\* install_tools or install_tool; anything other than 'y' for remove_tools or
\* remove_tool), the call returns False and leaves the system unchanged:
\* add_repository is not called and no install or remove command is run; and
\* only such an answer ends the call at the prompt.
C30_DeclineChangesNothing ==
    /\ Declines =>
         /\ pc = "done"
         /\ confirm = "declined"
         /\ verdict = "False"
         /\ repo = "none"
         /\ combined = << >>
         /\ \A t \in Tools :
              /\ primary[t] = 0
              /\ attempts[t] = << >>
              /\ outcome[t] = "none"
    /\ confirm = "declined" => Declines

\* Ctrl+C at the prompt of a remove batch of four
C30_Witness ==
    /\ api = "remove_tools"
    /\ n = 4
    /\ typed = ""
    /\ confirm = "declined"
    /\ verdict = "False"
    /\ pc = "done"

\* ------------------------------------- ToolManager.check_for_updates(tools)
\* One behaviour is one call with the tools 1..checking, on a system where
\* the packages of `installed` are installed and those of `upgradable` have
\* an upgrade pending.  A status is "not_installed", "update_available" or
\* "up_to_date".
MaxChecked == 3

\* check_installed's command:
\* dpkg -s <tool> 2>/dev/null | grep -q 'Status: install ok installed'
DpkgStatusCommand ==
    <<"dpkg", "-s", "pkg", "2", ">", "/dev/null", "|", "grep", "-q", "Status">>
\* get_installed_version's command: dpkg-query -W -f='${Version}' <tool> 2>/dev/null
DpkgVersionCommand ==
    <<"dpkg-query", "-W", "-f=", "${", "Version}", "pkg", "2", ">", "/dev/null">>
\* check_tool_update's command:
\* apt-get --simulate --quiet upgrade | grep -q '^Inst <tool> '
SimulateCommand ==
    <<"apt-get", "--simulate", "--quiet", "upgrade", "|", "grep", "-q", "Inst">>

\* ToolManager.check_installed: run_command's SecurityError is caught by
\* `except Exception` and raised again as ToolInstallationError
CheckInstalled(t, inst) ==
    IF SanitizeCommand(DpkgStatusCommand) # "ok" THEN "ToolInstallationError"
    ELSE IF t \in inst THEN "True" ELSE "False"

\* ToolManager.get_installed_version: "None", or "version"; every exception
\* ends in `return None`
GetInstalledVersion(t, inst) ==
    IF CheckInstalled(t, inst) # "True" THEN "None"
    ELSE IF SanitizeCommand(DpkgVersionCommand) # "ok" THEN "None"
    ELSE "version"

\* check_tool_update: the status of one tool, or the exception that leaves
\* the worker
CheckToolUpdateStatus(t, inst, upg) ==
    IF GetInstalledVersion(t, inst) = "None" THEN "not_installed"
    ELSE IF SanitizeCommand(SimulateCommand) # "ok" THEN "SecurityError"
    ELSE IF t \in upg THEN "update_available"
    ELSE "up_to_date"


InitUpdates ==
    /\ NoCall
    /\ AppIdle
    /\ NoMerge
    /\ checking \in 1..MaxChecked
    /\ installed \in SUBSET (1..checking)
    /\ upgradable \in SUBSET installed
    /\ check_results = [t \in 1..checking |-> "none"]
    /\ check_pc = "checking"
    /\ update_info = << >>

\* one worker of executor.map(check_tool_update, tools)
CheckToolUpdate(t) ==
    /\ check_pc = "checking"
    /\ check_results[t] = "none"
    /\ check_results' = [check_results EXCEPT ![t] =
                            CheckToolUpdateStatus(t, installed, upgradable)]
    /\ UNCHANGED <<toolVars, appVars, mergeVars, installed, upgradable, checking,
                   check_pc, update_info>>

\* check_for_updates after executor.map: the dictionary of the results, or {}
\* from `except Exception` when a worker raised
ReturnUpdateInfo ==
    /\ check_pc = "checking"
    /\ \A t \in 1..checking : check_results[t] # "none"
    /\ check_pc' = "returned"
    /\ update_info' =
         IF \E t \in 1..checking : check_results[t] = "SecurityError"
         THEN << >>
         ELSE check_results
    /\ UNCHANGED <<toolVars, appVars, mergeVars, installed, upgradable, checking,
                   check_results>>

NextUpdates ==
    \/ \E t \in 1..checking : CheckToolUpdate(t)
    \/ ReturnUpdateInfo

SpecUpdates == InitUpdates /\ [][NextUpdates]_vars

\* C25: for every tool passed to check_for_updates, the reported status is
\* 'not_installed' only if the tool is not installed; an installed tool is
\* reported 'update_available' when an upgrade is pending and 'up_to_date'
\* otherwise.
C25_StatusMatchesSystem ==
    check_pc = "returned" =>
        \A t \in 1..checking :
            /\ t \in DOMAIN update_info
            /\ update_info[t] = "not_installed" => t \notin installed
            /\ t \in installed =>
                 update_info[t] = (IF t \in upgradable THEN "update_available"
                                   ELSE "up_to_date")

\* --------------------------------------------- CategoryManager.__init__
\* One behaviour is the merge of the plugin categories into the built-in
\* ones.  The built-in categories have the IDs 1..built_in; plugin_queue is
\* the part of plugin_categories.items() the loop has not reached yet.  A
\* category is <<"builtin", id>> or <<"plugin", id>>, id being the ID it
\* was declared under.
MaxBuiltIn == 2
MaxPluginId == 4
MaxPlugins == 3

\* the orders of plugin_categories.items(): sequences of distinct IDs
PluginOrders ==
    {q \in UNION {[1..k -> 1..MaxPluginId] : k \in 0..MaxPlugins} :
        \A i, j \in 1..Len(q) : i # j => q[i] # q[j]}

\* max(self.categories.keys()) if self.categories else 0
MaxKey(keys) == IF keys = {} THEN 0 ELSE CHOOSE k \in keys : \A j \in keys : j <= k


InitMerge ==
    /\ NoCall
    /\ AppIdle
    /\ NoCheck
    /\ built_in \in 0..MaxBuiltIn
    /\ plugin_queue \in PluginOrders
    /\ plugin_ids = {plugin_queue[i] : i \in 1..Len(plugin_queue)}
    /\ categories = [id \in 1..built_in |-> <<"builtin", id>>]
    /\ max_id = MaxKey(1..built_in)

\* new_id = plugin_id if plugin_id not in self.categories else max_id + 1
NewId(plugin_id, keys, max) == IF plugin_id \notin keys THEN plugin_id ELSE max + 1

\* one iteration of `for plugin_id, category_data in plugin_categories.items()`
MergePluginCategory ==
    /\ plugin_queue # << >>
    /\ LET plugin_id == Head(plugin_queue)
           new_id == NewId(plugin_id, DOMAIN categories, max_id)
       IN /\ categories' = [id \in DOMAIN categories \cup {new_id} |->
                              IF id = new_id THEN <<"plugin", plugin_id>>
                              ELSE categories[id]]
          /\ max_id' = IF new_id # plugin_id THEN new_id ELSE max_id
    /\ plugin_queue' = Tail(plugin_queue)
    /\ UNCHANGED <<toolVars, appVars, updVars, built_in, plugin_ids>>

NextMerge == MergePluginCategory

SpecMerge == InitMerge /\ [][NextMerge]_vars

\* C29: after the merge, whatever the plugin category IDs and their order,
\* each built-in category is under its original ID, each plugin category is
\* under an ID of its own, and the number of categories is the number of
\* built-in categories plus the number of plugin categories.
C29_MergeKeepsEveryCategory ==
    plugin_queue = << >> =>
        /\ \A id \in 1..built_in : categories[id] = <<"builtin", id>>
        /\ \A p \in plugin_ids :
             \E id \in DOMAIN categories : categories[id] = <<"plugin", p>>
        /\ Cardinality(DOMAIN categories) = built_in + Cardinality(plugin_ids)

====
